---------------------------- MODULE Spec2Model ----------------------------
(***************************************************************************)
(* Verse navigation and addressing of the Greek New Testament translation  *)
(* helper: the canonical book registry, the extent scans over the MorphGNT *)
(* rows, and navigate_verse (src/data_structures.py); the window's start,  *)
(* its jump to a reference and its two files (settings.ini and             *)
(* usertranslations.json, src/translation_helper_gui.py).                  *)
(*                                                                         *)
(* Specifications: Spec (callers of navigate_verse), SpecGUI (the window), *)
(* SpecText (get_greek_text), SpecExtent (the extent scans), SpecRegistry  *)
(* (the registry lookups), SpecTranslations (the user translations),       *)
(* SpecStep (one stepping directive applied repeatedly), SpecWindow (the   *)
(* window with its translation box and navigation buttons).                *)
(*                                                                         *)
(* Python values are modelled as follows.                                  *)
(*   - a value that may be a string or an integer (a book identifier, an  *)
(*     element of a registry data tuple) is a tagged record, PyStr("Mt")   *)
(*     or PyInt(1), so that isinstance(x, int) is a test on the tag and a  *)
(*     string never equals an integer;                                     *)
(*   - None is the value None below;                                       *)
(*   - a tuple is a TLA+ tuple; Python index k is TLA+ index k+1;          *)
(*   - a dict is a function whose domain is the set of keys;               *)
(*   - a row's 'bcv' key, the six digit string BBCCVV, is the integer      *)
(*     BBCCVV, and the slices [:2], [2:4], [4:] are its digit pairs;       *)
(*   - a local a handler assigns once and reads several times is bound by  *)
(*     \E over the one-element set of its value.                           *)
(***************************************************************************)
EXTENDS Integers, Sequences, FiniteSets, TLC

\* ---------------------------------------------------------------- bounds
\* Chapters 1..MaxChapter and verses 1..MaxVerse may carry rows in a book.
MaxChapter == 2
MaxVerse == 2
\* The extent scans are tried on up to MaxRows rows in any order.
MaxRows == 3
\* The translation file is tried with up to MaxEntries translations.
MaxEntries == 2

\* ------------------------------------------------------------ the registry
NEW_TESTAMENT ==
  << <<1, "Matthew", "Mt", "The Gospel According to Matthew", "Matt">>,
     <<2, "Mark", "Mk", "The Gospel According to Mark", "Mark">>,
     <<3, "Luke", "Lk", "The Gospel According to Luke", "Luke">>,
     <<4, "John", "Jn", "The Gospel According to John", "John">>,
     <<5, "Acts", "Acts", "The Acts of the Apostles", "Acts">>,
     <<6, "Romans", "Rom", "The Letter to the Romans", "Rom">>,
     <<7, "1 Corinthians", "1Co", "The First Letter to the Corinthians", "1Cor">>,
     <<8, "2 Corinthians", "2Co", "The Second Letter to the Corinthians", "2Cor">>,
     <<9, "Galatians", "Gal", "The Letter to the Galatians", "Gal">>,
     <<10, "Ephesians", "Eph", "The Letter to the Ephesians", "Eph">>,
     <<11, "Philippians", "Phil", "The Letter to the Philippians", "Phil">>,
     <<12, "Colossians", "Col", "The Letter to the Colossians", "Col">>,
     <<13, "1 Thessalonians", "1Th", "The First Letter to the Thessalonians", "1Thess">>,
     <<14, "2 Thessalonians", "2Th", "The Second Letter to the Thessalonians", "2Thess">>,
     <<15, "1 Timothy", "1Ti", "The First Letter to Timothy", "1Tim">>,
     <<16, "2 Timothy", "2Ti", "The Second Letter to Timothy", "2Tim">>,
     <<17, "Titus", "Tit", "The Letter to Titus", "Titus">>,
     <<18, "Philemon", "Phm", "The Letter to Philemon", "Philem">>,
     <<19, "Hebrews", "Heb", "The Letter to the Hebrews", "Heb">>,
     <<20, "James", "Jas", "The Letter of James", "Jas">>,
     <<21, "1 Peter", "1Pe", "The First Letter of Peter", "1Pet">>,
     <<22, "2 Peter", "2Pe", "The Second Letter of Peter", "2Pet">>,
     <<23, "1 John", "1Jn", "The First Letter of John", "1John">>,
     <<24, "2 John", "2Jn", "The Second Letter of John", "2John">>,
     <<25, "3 John", "3Jn", "The Third Letter of John", "3John">>,
     <<26, "Jude", "Jude", "The Letter of Jude", "Jude">>,
     <<27, "Revelation", "Rev", "The Revelation to John", "Rev">> >>

\* Python's None.
None == <<>>

\* A Python string and a Python integer where either may stand.
PyStr(s) == [str |-> s]
PyInt(n) == [int |-> n]
IsInt(x) == DOMAIN x = {"int"}

\* {book[k]: ... for book in NEW_TESTAMENT}: the entry of the last book with
\* the key stands, as in a dict comprehension. col is the TLA+ index of the key.
LastWithKey(col, key) ==
  CHOOSE i \in DOMAIN NEW_TESTAMENT :
    /\ NEW_TESTAMENT[i][col] = key
    /\ \A j \in DOMAIN NEW_TESTAMENT : NEW_TESTAMENT[j][col] = key => j <= i

Keys(col) == {NEW_TESTAMENT[i][col] : i \in DOMAIN NEW_TESTAMENT}

SHORT_NAME_TO_DATA ==
  [k \in Keys(2) |-> LET book == NEW_TESTAMENT[LastWithKey(2, k)]
                     IN  <<PyInt(book[1]), PyStr(book[3]), PyStr(book[5])>>]

NUMBER_TO_DATA ==
  [k \in Keys(1) |-> LET book == NEW_TESTAMENT[LastWithKey(1, k)]
                     IN  <<PyStr(book[2]), PyStr(book[3]), PyStr(book[5])>>]

ABBREV_TO_DATA ==
  [k \in Keys(3) |-> LET book == NEW_TESTAMENT[LastWithKey(3, k)]
                     IN  <<PyInt(book[1]), PyStr(book[2]), PyStr(book[5])>>]

\* Mutant: every alternate abbreviation is keyed to the data of the book
\* after its own.
KJV_ABBREV_TO_DATA_NextBook ==
  [k \in Keys(5) |-> LET book == NEW_TESTAMENT[(LastWithKey(5, k) % Len(NEW_TESTAMENT)) + 1]
                     IN  <<PyInt(book[1]), PyStr(book[2]), PyStr(book[3])>>]

KJV_ABBREV_TO_DATA ==
  [k \in Keys(5) |-> LET book == NEW_TESTAMENT[LastWithKey(5, k)]
                     IN  <<PyInt(book[1]), PyStr(book[2]), PyStr(book[3])>>]

\* Mutant: the table of alternate abbreviations is not tried.
get_book_data_NoAlternate(identifier) ==
  IF IsInt(identifier)
  THEN IF identifier.int \in DOMAIN NUMBER_TO_DATA
       THEN NUMBER_TO_DATA[identifier.int] ELSE None
  ELSE IF identifier.str \in DOMAIN SHORT_NAME_TO_DATA
       THEN SHORT_NAME_TO_DATA[identifier.str]
  ELSE IF identifier.str \in DOMAIN ABBREV_TO_DATA
       THEN ABBREV_TO_DATA[identifier.str]
  ELSE None

\* Mutant: the table of alternate abbreviations is tried first.
get_book_data_AlternateFirst(identifier) ==
  IF IsInt(identifier)
  THEN IF identifier.int \in DOMAIN NUMBER_TO_DATA
       THEN NUMBER_TO_DATA[identifier.int] ELSE None
  ELSE IF identifier.str \in DOMAIN KJV_ABBREV_TO_DATA
       THEN KJV_ABBREV_TO_DATA[identifier.str]
  ELSE IF identifier.str \in DOMAIN SHORT_NAME_TO_DATA
       THEN SHORT_NAME_TO_DATA[identifier.str]
  ELSE IF identifier.str \in DOMAIN ABBREV_TO_DATA
       THEN ABBREV_TO_DATA[identifier.str]
  ELSE None

get_book_data(identifier) ==
  IF IsInt(identifier)
  THEN IF identifier.int \in DOMAIN NUMBER_TO_DATA
       THEN NUMBER_TO_DATA[identifier.int] ELSE None
  ELSE IF identifier.str \in DOMAIN SHORT_NAME_TO_DATA
       THEN SHORT_NAME_TO_DATA[identifier.str]
  ELSE IF identifier.str \in DOMAIN ABBREV_TO_DATA
       THEN ABBREV_TO_DATA[identifier.str]
  ELSE IF identifier.str \in DOMAIN KJV_ABBREV_TO_DATA
       THEN KJV_ABBREV_TO_DATA[identifier.str]
  ELSE None

\* Python's seq[i] for a 0-based index i.
PyAt(seq, i) == seq[i + 1]

\* -------------------------------------------------------------- the state
VARIABLES
  store,            \* the MorphGNT data morphgnt_rows reads (data_structures.py
                    \*   279): book number -> the rows of the book, in file order
  current_book,     \* the caller's current address (translation_helper_gui.py
  current_chapter,  \*   46-48): a book identifier, a chapter
  current_verse,    \*   and a verse
  settings,         \* the file userdata/settings.ini (translation_helper_gui.py
                    \*   52): None while it does not exist
  user_translations,    \* the file userdata/usertranslations.json
                        \*   (data_structures.py 246): None while it does not exist
  translation_input,    \* the text of the translation box (gui 290)
  translation_changed,  \* self.translation_changed (gui 49)
  phase,            \* where the window is: "constructing" before __init__ has
                    \*   run, "running" after it, "crashed" when it raised
  mode,             \* the operation last called (for navigate_verse, its directive)
  arg,              \* what the last call was given
  outcome           \* what the last call did: exception, return value, scans

files == <<settings, user_translations>>
widgets == <<translation_input, translation_changed>>
address == <<current_book, current_chapter, current_verse>>
vars == <<store, address, files, widgets, phase, mode, arg, outcome>>

\* ------------------------------------------------------- the verse provider
\* The bcv string BBCCVV of a row, read as a number.
Bcv(b, c, v) == b * 10000 + c * 100 + v
\* int(row['bcv'][:2]), int(row['bcv'][2:4]), int(row['bcv'][4:])
BcvBook(row) == row.bcv \div 10000
BcvChapter(row) == (row.bcv \div 100) % 100
BcvVerse(row) == row.bcv % 100

\* morphgnt_rows(book_num): the rows of one book, in file order. A verse has
\* one row per word; the rows of a verse share their bcv, and neither the
\* extent scans nor the validity test count them, so one row stands for all.
morphgnt_rows(book_num) == store[book_num]

\* ------------------------------------------------------------ extent scans
RECURSIVE ScanMaxChapter(_, _, _)
ScanMaxChapter(rows, i, max_chapter) ==
  IF i > Len(rows) THEN max_chapter
  ELSE LET c == BcvChapter(rows[i])
       IN  ScanMaxChapter(rows, i + 1, IF c > max_chapter THEN c ELSE max_chapter)

\* Mutant: the chapter of the first row is taken for the highest.
get_max_chapter_FirstRow(book_num) ==
  LET rows == morphgnt_rows(book_num)
  IN  IF rows = <<>> THEN 0 ELSE BcvChapter(rows[1])

\* Mutant: the rows are taken to come in ascending order.
get_max_chapter_LastRow(book_num) ==
  LET rows == morphgnt_rows(book_num)
  IN  IF rows = <<>> THEN 0 ELSE BcvChapter(rows[Len(rows)])

get_max_chapter(book_num) == ScanMaxChapter(morphgnt_rows(book_num), 1, 0)

RECURSIVE ScanMaxVerse(_, _, _, _)
ScanMaxVerse(rows, chapter, i, max_verse) ==
  IF i > Len(rows) THEN max_verse
  ELSE LET c == BcvChapter(rows[i])
           v == BcvVerse(rows[i])
       IN  ScanMaxVerse(rows, chapter, i + 1,
                        IF c = chapter /\ v > max_verse THEN v ELSE max_verse)

get_max_verse(book_num, chapter) ==
  ScanMaxVerse(morphgnt_rows(book_num), chapter, 1, 0)

\* get_greek_text(book, chapter, verse): the rows of the verse, for a book
\* given by a string the registry knows (book_data[0] is then its number). The
\* callers test the list for emptiness only, so a row stands for its words.
get_greek_text(book, chapter, verse) ==
  LET book_num == get_book_data(book)[1].int
      rows == morphgnt_rows(book_num)
  IN  SelectSeq(rows, LAMBDA row : /\ BcvBook(row) = book_num
                                   /\ BcvChapter(row) = chapter
                                   /\ BcvVerse(row) = verse)

\* ------------------------------------------------------------ navigate_verse
\* What a call does: the exception it raises ("" for none), the value it
\* returns (None when it raises) and the number of morphgnt_rows scans it ran.
Returns(book_name, chapter, verse, scans) ==
  [exc |-> "", ret |-> <<book_name, chapter, verse>>, scans |-> scans]
Raises(message) ==
  [exc |-> message, ret |-> None, scans |-> 0]

\* for idx, book in enumerate(NEW_TESTAMENT): if book[0] == book_num: ... break
\* The result is None or the one-tuple <<book_idx>>. book_num is book_data[0],
\* an integer from the three string tables and the full name, a string, from
\* NUMBER_TO_DATA, which no book[0] equals.
\* Mutant: the offsets are counted from 1.
FindBookIdx_FromOne(book_num) ==
  LET hits == {idx \in 1..Len(NEW_TESTAMENT) :
                 PyInt(NEW_TESTAMENT[idx][1]) = book_num}
  IN  IF hits = {} THEN None
      ELSE <<CHOOSE idx \in hits : \A other \in hits : idx <= other>>

FindBookIdx(book_num) ==
  LET hits == {idx \in 0..(Len(NEW_TESTAMENT) - 1) :
                 PyInt(PyAt(NEW_TESTAMENT, idx)[1]) = book_num}
  IN  IF hits = {} THEN None
      ELSE <<CHOOSE idx \in hits : \A other \in hits : idx <= other>>

\* Mutant: <= for < in the test against max_verse.
NextVerse_PastLastVerse(book_num, book_idx, current_chapter_, current_verse_) ==
  LET max_verse == get_max_verse(book_num, current_chapter_)
  IN  IF current_verse_ <= max_verse
      THEN Returns(NUMBER_TO_DATA[book_num][1], current_chapter_, current_verse_ + 1, 1)
      ELSE LET max_chapter == get_max_chapter(book_num)
           IN  IF current_chapter_ < max_chapter
               THEN Returns(NUMBER_TO_DATA[book_num][1], current_chapter_ + 1, 1, 2)
               ELSE IF book_idx < Len(NEW_TESTAMENT) - 1
               THEN LET next_book == PyAt(NEW_TESTAMENT, book_idx + 1)
                    IN  Returns(PyStr(next_book[2]), 1, 1, 2)
               ELSE Returns(NUMBER_TO_DATA[book_num][1], current_chapter_, current_verse_, 2)

\* Mutant: next_book[3], the title, for next_book[1], the full name.
NextVerse_TitleOfNextBook(book_num, book_idx, current_chapter_, current_verse_) ==
  LET max_verse == get_max_verse(book_num, current_chapter_)
  IN  IF current_verse_ < max_verse
      THEN Returns(NUMBER_TO_DATA[book_num][1], current_chapter_, current_verse_ + 1, 1)
      ELSE LET max_chapter == get_max_chapter(book_num)
           IN  IF current_chapter_ < max_chapter
               THEN Returns(NUMBER_TO_DATA[book_num][1], current_chapter_ + 1, 1, 2)
               ELSE IF book_idx < Len(NEW_TESTAMENT) - 1
               THEN LET next_book == PyAt(NEW_TESTAMENT, book_idx + 1)
                    IN  Returns(PyStr(next_book[4]), 1, 1, 2)
               ELSE Returns(NUMBER_TO_DATA[book_num][1], current_chapter_, current_verse_, 2)

\* Mutant: past the end of the last book the stepping wraps to the first book.
NextVerse_WrapsToFirstBook(book_num, book_idx, current_chapter_, current_verse_) ==
  LET max_verse == get_max_verse(book_num, current_chapter_)
  IN  IF current_verse_ < max_verse
      THEN Returns(NUMBER_TO_DATA[book_num][1], current_chapter_, current_verse_ + 1, 1)
      ELSE LET max_chapter == get_max_chapter(book_num)
           IN  IF current_chapter_ < max_chapter
               THEN Returns(NUMBER_TO_DATA[book_num][1], current_chapter_ + 1, 1, 2)
               ELSE LET next_book == PyAt(NEW_TESTAMENT, (book_idx + 1) % Len(NEW_TESTAMENT))
                    IN  Returns(PyStr(next_book[2]), 1, 1, 2)

NextVerse(book_num, book_idx, current_chapter_, current_verse_) ==
  LET max_verse == get_max_verse(book_num, current_chapter_)
  IN  IF current_verse_ < max_verse
      THEN Returns(NUMBER_TO_DATA[book_num][1], current_chapter_, current_verse_ + 1, 1)
      ELSE LET max_chapter == get_max_chapter(book_num)
           IN  IF current_chapter_ < max_chapter
               THEN Returns(NUMBER_TO_DATA[book_num][1], current_chapter_ + 1, 1, 2)
               ELSE IF book_idx < Len(NEW_TESTAMENT) - 1
               THEN LET next_book == PyAt(NEW_TESTAMENT, book_idx + 1)
                    IN  Returns(PyStr(next_book[2]), 1, 1, 2)
               ELSE Returns(NUMBER_TO_DATA[book_num][1], current_chapter_, current_verse_, 2)

\* Mutant: the extent of the current chapter for that of the previous one.
PreviousVerse_CurrentChapterExtent(book_num, book_idx, current_chapter_, current_verse_) ==
  IF current_verse_ > 1
  THEN Returns(NUMBER_TO_DATA[book_num][1], current_chapter_, current_verse_ - 1, 0)
  ELSE IF current_chapter_ > 1
  THEN LET prev_chapter == current_chapter_ - 1
           prev_max_verse == get_max_verse(book_num, current_chapter_)
       IN  Returns(NUMBER_TO_DATA[book_num][1], prev_chapter, prev_max_verse, 1)
  ELSE IF book_idx > 0
  THEN LET prev_book == PyAt(NEW_TESTAMENT, book_idx - 1)
           prev_book_num == prev_book[1]
           prev_max_chapter == get_max_chapter(prev_book_num)
           prev_max_verse == get_max_verse(prev_book_num, prev_max_chapter)
       IN  Returns(PyStr(prev_book[2]), prev_max_chapter, prev_max_verse, 2)
  ELSE Returns(NUMBER_TO_DATA[book_num][1], current_chapter_, current_verse_, 0)

\* Mutant: the previous chapter is entered at its first verse.
PreviousVerse_ToChapterStart(book_num, book_idx, current_chapter_, current_verse_) ==
  IF current_verse_ > 1
  THEN Returns(NUMBER_TO_DATA[book_num][1], current_chapter_, current_verse_ - 1, 0)
  ELSE IF current_chapter_ > 1
  THEN Returns(NUMBER_TO_DATA[book_num][1], current_chapter_ - 1, 1, 0)
  ELSE IF book_idx > 0
  THEN LET prev_book == PyAt(NEW_TESTAMENT, book_idx - 1)
           prev_book_num == prev_book[1]
           prev_max_chapter == get_max_chapter(prev_book_num)
           prev_max_verse == get_max_verse(prev_book_num, prev_max_chapter)
       IN  Returns(PyStr(prev_book[2]), prev_max_chapter, prev_max_verse, 2)
  ELSE Returns(NUMBER_TO_DATA[book_num][1], current_chapter_, current_verse_, 0)

PreviousVerse(book_num, book_idx, current_chapter_, current_verse_) ==
  IF current_verse_ > 1
  THEN Returns(NUMBER_TO_DATA[book_num][1], current_chapter_, current_verse_ - 1, 0)
  ELSE IF current_chapter_ > 1
  THEN LET prev_chapter == current_chapter_ - 1
           prev_max_verse == get_max_verse(book_num, prev_chapter)
       IN  Returns(NUMBER_TO_DATA[book_num][1], prev_chapter, prev_max_verse, 1)
  ELSE IF book_idx > 0
  THEN LET prev_book == PyAt(NEW_TESTAMENT, book_idx - 1)
           prev_book_num == prev_book[1]
           prev_max_chapter == get_max_chapter(prev_book_num)
           prev_max_verse == get_max_verse(prev_book_num, prev_max_chapter)
       IN  Returns(PyStr(prev_book[2]), prev_max_chapter, prev_max_verse, 2)
  ELSE Returns(NUMBER_TO_DATA[book_num][1], current_chapter_, current_verse_, 0)

\* Mutant: no rewind from the first verse of a chapter to the chapter before.
StartOfChapter_NoRewind(book_num, book_idx, current_chapter_, current_verse_) ==
  IF current_verse_ = 1 /\ ~(current_chapter_ > 1)
  THEN IF book_idx > 0
       THEN LET prev_book == PyAt(NEW_TESTAMENT, book_idx - 1)
                prev_book_num == prev_book[1]
                prev_max_chapter == get_max_chapter(prev_book_num)
            IN  Returns(PyStr(prev_book[2]), prev_max_chapter, 1, 1)
       ELSE Returns(NUMBER_TO_DATA[book_num][1], current_chapter_, current_verse_, 0)
  ELSE Returns(NUMBER_TO_DATA[book_num][1], current_chapter_, 1, 0)

StartOfChapter(book_num, book_idx, current_chapter_, current_verse_) ==
  IF current_verse_ = 1
  THEN IF current_chapter_ > 1
       THEN Returns(NUMBER_TO_DATA[book_num][1], current_chapter_ - 1, 1, 0)
       ELSE IF book_idx > 0
       THEN LET prev_book == PyAt(NEW_TESTAMENT, book_idx - 1)
                prev_book_num == prev_book[1]
                prev_max_chapter == get_max_chapter(prev_book_num)
            IN  Returns(PyStr(prev_book[2]), prev_max_chapter, 1, 1)
       ELSE Returns(NUMBER_TO_DATA[book_num][1], current_chapter_, current_verse_, 0)
  ELSE Returns(NUMBER_TO_DATA[book_num][1], current_chapter_, 1, 0)

\* Mutant: <= for < in the test against max_chapter.
StartOfNextChapter_PastLastChapter(book_num, book_idx, current_chapter_, current_verse_) ==
  LET max_chapter == get_max_chapter(book_num)
  IN  IF current_chapter_ <= max_chapter
      THEN Returns(NUMBER_TO_DATA[book_num][1], current_chapter_ + 1, 1, 1)
      ELSE IF book_idx < Len(NEW_TESTAMENT) - 1
      THEN LET next_book == PyAt(NEW_TESTAMENT, book_idx + 1)
           IN  Returns(PyStr(next_book[2]), 1, 1, 1)
      ELSE Returns(NUMBER_TO_DATA[book_num][1], current_chapter_, current_verse_, 1)

\* Mutant: at the end of the last book the verse is reset to 1.
StartOfNextChapter_ResetsVerse(book_num, book_idx, current_chapter_, current_verse_) ==
  LET max_chapter == get_max_chapter(book_num)
  IN  IF current_chapter_ < max_chapter
      THEN Returns(NUMBER_TO_DATA[book_num][1], current_chapter_ + 1, 1, 1)
      ELSE IF book_idx < Len(NEW_TESTAMENT) - 1
      THEN LET next_book == PyAt(NEW_TESTAMENT, book_idx + 1)
           IN  Returns(PyStr(next_book[2]), 1, 1, 1)
      ELSE Returns(NUMBER_TO_DATA[book_num][1], current_chapter_, 1, 1)

StartOfNextChapter(book_num, book_idx, current_chapter_, current_verse_) ==
  LET max_chapter == get_max_chapter(book_num)
  IN  IF current_chapter_ < max_chapter
      THEN Returns(NUMBER_TO_DATA[book_num][1], current_chapter_ + 1, 1, 1)
      ELSE IF book_idx < Len(NEW_TESTAMENT) - 1
      THEN LET next_book == PyAt(NEW_TESTAMENT, book_idx + 1)
           IN  Returns(PyStr(next_book[2]), 1, 1, 1)
      ELSE Returns(NUMBER_TO_DATA[book_num][1], current_chapter_, current_verse_, 1)

\* The dispatch on mode, once the book and its index are known.
Dispatch(book_num, book_idx, current_chapter_, current_verse_, mode_) ==
  IF mode_ = "next_verse"
  THEN NextVerse(book_num, book_idx, current_chapter_, current_verse_)
  ELSE IF mode_ = "previous_verse"
  THEN PreviousVerse(book_num, book_idx, current_chapter_, current_verse_)
  ELSE IF mode_ = "start_of_chapter"
  THEN StartOfChapter(book_num, book_idx, current_chapter_, current_verse_)
  ELSE IF mode_ = "start_of_next_chapter"
  THEN StartOfNextChapter(book_num, book_idx, current_chapter_, current_verse_)
  ELSE Raises("ValueError: Unknown navigation mode")

navigate_verse(current_book_, current_chapter_, current_verse_, mode_) ==
  LET book_data == get_book_data(current_book_)
  IN  IF book_data = None
      THEN Raises("ValueError: Unknown book")
      ELSE LET book_num == book_data[1]
               found == FindBookIdx(book_num)
           IN  IF found = None
               THEN Raises("ValueError: Book not found in NEW_TESTAMENT")
               ELSE Dispatch(book_num.int, found[1], current_chapter_, current_verse_, mode_)

\* ------------------------------------------------------------------ inputs
\* The extents of a book: for each chapter 1..MaxChapter its number of verses,
\* 0 for a chapter without rows. The rows of a book with these extents are the
\* verses 1..n of each chapter of n verses; navigate_verse reads the store
\* through get_max_chapter and get_max_verse alone, so rows missing below an
\* extent change none of its results, and only make fewer addresses valid.
Extents == [1..MaxChapter -> 0..MaxVerse]
Verses(extents) ==
  {cv \in (1..MaxChapter) \X (1..MaxVerse) : cv[2] <= extents[cv[1]]}
\* The extents with the chapters in reverse order.
Reverse(extents) == [c \in 1..MaxChapter |-> extents[MaxChapter + 1 - c]]

\* The rows of the verses cvs of a book, in ascending order of bcv, which is
\* the order of the data files.
RECURSIVE Ascending(_)
Ascending(S) ==
  IF S = {} THEN <<>>
  ELSE LET m == CHOOSE x \in S : \A y \in S : x <= y
       IN  <<[bcv |-> m]>> \o Ascending(S \ {m})
RowsOf(book_num, cvs) == Ascending({Bcv(book_num, cv[1], cv[2]) : cv \in cvs})

\* A store: the books at odd positions (the first and the last among them)
\* hold the verses odd, the books at even positions the verses even.
Layout(odd, even) ==
  [book_num \in DOMAIN NUMBER_TO_DATA |->
     RowsOf(book_num, IF book_num % 2 = 1 THEN odd ELSE even)]

\* The stores tried: every extents for the odd books, chapters and books
\* without rows included, and beside them even books with these extents
\* reversed (the same extents, when they read the same both ways) or without
\* rows.
Stores ==
  UNION {{Layout(Verses(e), Verses(Reverse(e))), Layout(Verses(e), {})} :
         e \in Extents}

\* The identifiers of a set of books (positions): full name, abbreviation,
\* alternate abbreviation and number.
FullNames(positions) == {PyStr(NEW_TESTAMENT[i][2]) : i \in positions}
OtherForms(positions) ==
  UNION {{PyStr(NEW_TESTAMENT[i][3]), PyStr(NEW_TESTAMENT[i][5]),
          PyInt(NEW_TESTAMENT[i][1])} : i \in positions}

\* The identifiers tried: every full name; the other forms of the first two
\* books, of Acts (whose three strings are one) and of the last book; and
\* identifiers the registry does not know.
KnownIdentifiers ==
  FullNames(DOMAIN NEW_TESTAMENT)
    \cup OtherForms({i \in DOMAIN NEW_TESTAMENT :
                      NEW_TESTAMENT[i][2] \in {"Matthew", "Mark", "Acts", "Revelation"}})

UnknownIdentifiers ==
  {PyStr("Genesis"), PyStr("1"), PyInt(0), PyInt(Len(NEW_TESTAMENT) + 1)}

Modes == {"next_verse", "previous_verse", "start_of_chapter", "start_of_next_chapter"}
OtherModes == {"start_of_previous_chapter"}

\* ----------------------------------------------------------------- actions
Init ==
  /\ store \in Stores
  /\ current_book \in KnownIdentifiers \cup UnknownIdentifiers
  /\ current_chapter \in 1..(MaxChapter + 1)
  /\ current_verse \in 1..(MaxVerse + 1)
  /\ settings = None
  /\ user_translations = None
  /\ translation_input = ""
  /\ translation_changed = FALSE
  /\ phase = "running"
  /\ mode = ""
  /\ arg = None
  /\ outcome = [exc |-> "", ret |-> None, scans |-> 0]

\* current_book, current_chapter, current_verse = navigate_verse(current_book,
\* current_chapter, current_verse, m): an exception leaves the address alone.
Call(m) ==
  \E result \in {navigate_verse(current_book, current_chapter, current_verse, m)} :
      /\ mode' = m
      /\ arg' = <<current_book, current_chapter, current_verse>>
      /\ outcome' = result
      /\ IF result.exc = ""
         THEN /\ current_book' = result.ret[1]
              /\ current_chapter' = result.ret[2]
              /\ current_verse' = result.ret[3]
         ELSE UNCHANGED <<current_book, current_chapter, current_verse>>

\* The four calls the callers make, and a call with another mode. None
\* writes the MorphGNT data or the files, and none is the window's.
CallNextVerse ==
  /\ Call("next_verse")
  /\ UNCHANGED <<store, files, widgets, phase>>

CallPreviousVerse ==
  /\ Call("previous_verse")
  /\ UNCHANGED <<store, files, widgets, phase>>

CallStartOfChapter ==
  /\ Call("start_of_chapter")
  /\ UNCHANGED <<store, files, widgets, phase>>

CallStartOfNextChapter ==
  /\ Call("start_of_next_chapter")
  /\ UNCHANGED <<store, files, widgets, phase>>

CallOtherMode ==
  \E m \in OtherModes :
    /\ Call(m)
    /\ UNCHANGED <<store, files, widgets, phase>>

Next ==
  \/ CallNextVerse
  \/ CallPreviousVerse
  \/ CallStartOfChapter
  \/ CallStartOfNextChapter
  \/ CallOtherMode

Spec == Init /\ [][Next]_vars

\* ------------------------------------------------- the terms of the claims
\* What follows is the vocabulary of the properties, taken from the
\* specification's definitions and not from the code.
\* The last call was of directive m.
Called(m) == arg # None /\ mode = m
\* The last call returned an address.
Returned == arg # None /\ outcome.exc = ""
\* The book of the last call was named by a string the registry resolves.
NamedBook == arg # None /\ ~IsInt(arg[1]) /\ get_book_data(arg[1]) # None

\* The position (1..N) of a book named by a string the registry resolves.
PositionOf(identifier) ==
  CHOOSE i \in DOMAIN NEW_TESTAMENT :
    identifier.str \in {NEW_TESTAMENT[i][2], NEW_TESTAMENT[i][3], NEW_TESTAMENT[i][5]}
FullNameAt(position) == PyStr(NEW_TESTAMENT[position][2])
LastPosition == Len(NEW_TESTAMENT)

\* The extents as the specification defines them: the largest chapter of the
\* book's records, the largest verse of the chapter's records, 0 for none.
Largest(S) == IF S = {} THEN 0 ELSE CHOOSE x \in S : \A y \in S : y <= x
Records(position) == {store[position][i].bcv : i \in DOMAIN store[position]}
HasRecord(position, chapter, verse) ==
  Bcv(position, chapter, verse) \in Records(position)
max_chapter(position) ==
  Largest({(bcv \div 100) % 100 : bcv \in Records(position)})
max_verse(position, chapter) ==
  Largest({bcv % 100 : bcv \in {x \in Records(position) : (x \div 100) % 100 = chapter}})

\* Two addresses name the same book, chapter and verse.
SameAddress(a, b) ==
  /\ a # None /\ b # None
  /\ PositionOf(a[1]) = PositionOf(b[1]) /\ a[2] = b[2] /\ a[3] = b[3]
\* An address is valid: the store holds a record of it.
Valid(a) == HasRecord(PositionOf(a[1]), a[2], a[3])
AtVeryFirstVerse(a) == PositionOf(a[1]) = 1 /\ a[2] = 1 /\ a[3] = 1
AtVeryLastVerse(a) ==
  /\ PositionOf(a[1]) = LastPosition
  /\ a[2] = max_chapter(LastPosition)
  /\ a[3] = max_verse(LastPosition, a[2])

\* ------------------------------------------------------------------ claims
\* C1: next_verse on (book, chapter, verse) returns (book, chapter, verse+1)
\* if verse < max_verse(book, chapter); otherwise (book, chapter+1, 1) if
\* chapter < max_chapter(book); otherwise (next book's full name, 1, 1) if the
\* book is not the last; otherwise the input address.
C1_NextVerse ==
  (Called("next_verse") /\ NamedBook) =>
    LET b == PositionOf(arg[1])
        c == arg[2]
        v == arg[3]
    IN  /\ outcome.exc = ""
        /\ outcome.ret =
             IF v < max_verse(b, c) THEN <<FullNameAt(b), c, v + 1>>
             ELSE IF c < max_chapter(b) THEN <<FullNameAt(b), c + 1, 1>>
             ELSE IF b # LastPosition THEN <<FullNameAt(b + 1), 1, 1>>
             ELSE <<FullNameAt(b), c, v>>

\* The last verse of the last chapter of Matthew went to Mark 1:1.
C1_Witness ==
  /\ Called("next_verse") /\ arg[1] = PyStr("Matthew") /\ Valid(arg)
  /\ arg[2] = max_chapter(1) /\ arg[3] = max_verse(1, arg[2]) /\ arg[2] = MaxChapter
  /\ outcome.ret = <<PyStr("Mark"), 1, 1>>

\* C2: previous_verse on (book, chapter, verse) returns (book, chapter,
\* verse-1) if verse > 1; otherwise (book, chapter-1, max_verse(book,
\* chapter-1)) if chapter > 1; otherwise (previous book, its max_chapter, the
\* max_verse of that chapter) if the book is not the first; otherwise the input.
C2_PreviousVerse ==
  (Called("previous_verse") /\ NamedBook) =>
    LET b == PositionOf(arg[1])
        c == arg[2]
        v == arg[3]
    IN  /\ outcome.exc = ""
        /\ outcome.ret =
             IF v > 1 THEN <<FullNameAt(b), c, v - 1>>
             ELSE IF c > 1 THEN <<FullNameAt(b), c - 1, max_verse(b, c - 1)>>
             ELSE IF b # 1
             THEN <<FullNameAt(b - 1), max_chapter(b - 1),
                    max_verse(b - 1, max_chapter(b - 1))>>
             ELSE <<FullNameAt(b), c, v>>

\* Mark 1:1 went back to the last verse of Matthew, in its second chapter.
C2_Witness ==
  /\ Called("previous_verse") /\ arg = <<PyStr("Mark"), 1, 1>>
  /\ outcome.ret = <<PyStr("Matthew"), MaxChapter, MaxVerse>>
  /\ Valid(outcome.ret)

\* C3 as stated: for every valid address A not at the very first verse of the
\* collection, next_verse and then previous_verse returns A.
C3_AsStated ==
  (Called("next_verse") /\ NamedBook /\ Valid(arg) /\ ~AtVeryFirstVerse(arg)) =>
    SameAddress(navigate_verse(current_book, current_chapter, current_verse,
                               "previous_verse").ret, arg)

\* C3 amended: for every valid address A not at the very last verse of the
\* collection (the very first verse included), next_verse and then
\* previous_verse returns A.
C3_NextThenPrevious ==
  (Called("next_verse") /\ NamedBook /\ Valid(arg) /\ ~AtVeryLastVerse(arg)) =>
    SameAddress(navigate_verse(current_book, current_chapter, current_verse,
                               "previous_verse").ret, arg)

\* next_verse left the last verse of Mark for Luke 1:1, from where
\* previous_verse leads back across the book boundary.
C3_Witness ==
  /\ Called("next_verse") /\ arg[1] = PyStr("Mark") /\ Valid(arg)
  /\ current_book = PyStr("Luke") /\ current_chapter = 1 /\ current_verse = 1
  /\ navigate_verse(current_book, current_chapter, current_verse,
                    "previous_verse").ret = arg

\* C4 as stated: for every valid address A not at the very last verse of the
\* collection, previous_verse and then next_verse returns A.
C4_AsStated ==
  (Called("previous_verse") /\ NamedBook /\ Valid(arg) /\ ~AtVeryLastVerse(arg)) =>
    SameAddress(navigate_verse(current_book, current_chapter, current_verse,
                               "next_verse").ret, arg)

\* C4 amended: for every valid address A not at the very first verse of the
\* collection (the very last verse included), previous_verse and then
\* next_verse returns A.
C4_PreviousThenNext ==
  (Called("previous_verse") /\ NamedBook /\ Valid(arg) /\ ~AtVeryFirstVerse(arg)) =>
    SameAddress(navigate_verse(current_book, current_chapter, current_verse,
                               "next_verse").ret, arg)

\* previous_verse left Revelation 1:1 for the last verse of Jude, from where
\* next_verse leads forward again.
C4_Witness ==
  /\ Called("previous_verse") /\ arg = <<PyStr("Revelation"), 1, 1>> /\ Valid(arg)
  /\ current_book = PyStr("Jude") /\ current_chapter = MaxChapter
  /\ navigate_verse(current_book, current_chapter, current_verse,
                    "next_verse").ret = arg

\* C5: at the first verse of the first book previous_verse and
\* start_of_chapter return the input, and at the last verse of the last book
\* next_verse and start_of_next_chapter return the input, so that the caller's
\* address stays there however often they are applied.
C5_FixedEnds ==
  NamedBook =>
    /\ (mode \in {"previous_verse", "start_of_chapter"} /\ AtVeryFirstVerse(arg)) =>
          /\ outcome.ret = <<PyStr("Matthew"), 1, 1>>
          /\ <<current_book, current_chapter, current_verse>> = outcome.ret
    /\ (mode \in {"next_verse", "start_of_next_chapter"} /\ Valid(arg)
          /\ AtVeryLastVerse(arg)) =>
          /\ outcome.ret = <<PyStr("Revelation"), arg[2], arg[3]>>
          /\ <<current_book, current_chapter, current_verse>> = outcome.ret

\* start_of_next_chapter was applied at the last verse of Revelation, which
\* is not the first verse of its chapter.
C5_Witness ==
  /\ Called("start_of_next_chapter") /\ arg[1] = PyStr("Revelation")
  /\ Valid(arg) /\ AtVeryLastVerse(arg) /\ arg[3] > 1
  /\ <<current_book, current_chapter, current_verse>> = arg

\* C6: the book of every returned address is the full name of a registry
\* book, whose position is in 1..N, and a call that changes the book lands on
\* the next position (next_verse, start_of_next_chapter) or on the one before
\* (previous_verse, start_of_chapter); the caller's book is that book.
C6_BookInRegistry ==
  Returned =>
    /\ outcome.ret[1] \in FullNames(DOMAIN NEW_TESTAMENT)
    /\ PositionOf(outcome.ret[1]) \in 1..LastPosition
    /\ current_book = outcome.ret[1]
    /\ PositionOf(outcome.ret[1]) # PositionOf(arg[1]) =>
          PositionOf(outcome.ret[1]) =
            IF mode \in {"next_verse", "start_of_next_chapter"}
            THEN PositionOf(arg[1]) + 1 ELSE PositionOf(arg[1]) - 1

\* start_of_chapter moved from the last book to the one before it.
C6_Witness ==
  /\ Called("start_of_chapter") /\ Returned
  /\ PositionOf(arg[1]) = LastPosition
  /\ PositionOf(current_book) = LastPosition - 1

\* C7: start_of_chapter returns (book, chapter, 1) when verse # 1; when
\* verse = 1 it returns (book, chapter-1, 1) if chapter > 1, else (previous
\* book, max_chapter(previous book), 1) if there is a previous book, else the
\* input.
C7_StartOfChapter ==
  (Called("start_of_chapter") /\ NamedBook) =>
    LET b == PositionOf(arg[1])
        c == arg[2]
        v == arg[3]
    IN  /\ outcome.exc = ""
        /\ outcome.ret =
             IF v # 1 THEN <<FullNameAt(b), c, 1>>
             ELSE IF c > 1 THEN <<FullNameAt(b), c - 1, 1>>
             ELSE IF b # 1 THEN <<FullNameAt(b - 1), max_chapter(b - 1), 1>>
             ELSE <<FullNameAt(b), c, v>>

\* John 2:1 went to John 1:1 (the rewind past the start of the chapter).
C7_Witness ==
  /\ Called("start_of_chapter") /\ arg = <<PyStr("John"), 2, 1>> /\ Valid(arg)
  /\ outcome.ret = <<PyStr("John"), 1, 1>>

\* C8: start_of_next_chapter returns (book, chapter+1, 1) if chapter <
\* max_chapter(book); otherwise (next book, 1, 1) if there is a next book;
\* otherwise the input address, its verse included.
C8_StartOfNextChapter ==
  (Called("start_of_next_chapter") /\ NamedBook) =>
    LET b == PositionOf(arg[1])
        c == arg[2]
        v == arg[3]
    IN  /\ outcome.exc = ""
        /\ outcome.ret =
             IF c < max_chapter(b) THEN <<FullNameAt(b), c + 1, 1>>
             ELSE IF b # LastPosition THEN <<FullNameAt(b + 1), 1, 1>>
             ELSE <<FullNameAt(b), c, v>>

\* From the second verse of Jude's last chapter to Revelation 1:1.
C8_Witness ==
  /\ Called("start_of_next_chapter") /\ arg[1] = PyStr("Jude") /\ Valid(arg)
  /\ arg[2] = max_chapter(PositionOf(arg[1])) /\ arg[3] = 2
  /\ outcome.ret = <<PyStr("Revelation"), 1, 1>>

\* C9: a call fails with the unknown book error whenever the book does not
\* resolve in the registry, whatever the directive, and with the unknown
\* directive error whenever the book resolves and the directive is none of
\* the four; either way it returns no address and scans no rows.
C9_Errors ==
  arg # None =>
    /\ get_book_data(arg[1]) = None =>
          outcome = [exc |-> "ValueError: Unknown book", ret |-> None, scans |-> 0]
    /\ (get_book_data(arg[1]) # None /\ mode \notin Modes) =>
          outcome = [exc |-> "ValueError: Unknown navigation mode",
                     ret |-> None, scans |-> 0]

\* The last call consulted an extent that is 0: max_verse or max_chapter of
\* the current chapter or book going forward, of the previous chapter or book
\* going backward.
ConsultsEmptyExtent ==
  LET b == PositionOf(arg[1])
      c == arg[2]
      v == arg[3]
  IN  \/ /\ mode = "next_verse"
         /\ \/ max_verse(b, c) = 0
            \/ ~(v < max_verse(b, c)) /\ max_chapter(b) = 0
      \/ /\ mode = "previous_verse" /\ ~(v > 1)
         /\ \/ c > 1 /\ max_verse(b, c - 1) = 0
            \/ /\ ~(c > 1) /\ b # 1
               /\ \/ max_chapter(b - 1) = 0
                  \/ max_verse(b - 1, max_chapter(b - 1)) = 0
      \/ /\ mode = "start_of_chapter" /\ v = 1 /\ ~(c > 1) /\ b # 1
         /\ max_chapter(b - 1) = 0
      \/ /\ mode = "start_of_next_chapter"
         /\ max_chapter(b) = 0

\* C10: whenever an extent a call consults is 0, the call returns the
\* address it was given, and so no address with chapter 0 or verse 0 and none
\* in another book.
C10_EmptyExtentStaysPut ==
  (Returned /\ NamedBook /\ ConsultsEmptyExtent) => SameAddress(outcome.ret, arg)


\* =========================================================== the window
\* translation_helper_gui.py. A text the code parses (the value of a settings
\* option, the content of a line edit) is the sequence of its characters; a
\* text it only stores (a book name, a translation) is a string.
Digits == <<"0", "1", "2", "3", "4", "5", "6", "7", "8", "9">>

IsDigitChar(ch) == \E i \in DOMAIN Digits : Digits[i] = ch
DigitValue(ch) == (CHOOSE i \in DOMAIN Digits : Digits[i] = ch) - 1

\* str.isdigit(): at least one character and every character a digit.
isdigit(text) ==
  /\ text # <<>>
  /\ \A i \in DOMAIN text : IsDigitChar(text[i])

\* str.strip(): without the blanks at either end.
RECURSIVE strip(_)
strip(text) ==
  IF text = <<>> THEN text
  ELSE IF Head(text) = " " THEN strip(Tail(text))
  ELSE IF text[Len(text)] = " " THEN strip(SubSeq(text, 1, Len(text) - 1))
  ELSE text

RECURSIVE DecimalValue(_)
DecimalValue(digits) ==
  IF digits = <<>> THEN 0
  ELSE DecimalValue(SubSeq(digits, 1, Len(digits) - 1)) * 10
         + DigitValue(digits[Len(digits)])

\* int(text): blanks around an optional sign and a run of digits, and a
\* ValueError for any other text.
int(text) ==
  LET stripped == strip(text)
      signed == stripped # <<>> /\ Head(stripped) \in {"-", "+"}
      digits == IF signed THEN Tail(stripped) ELSE stripped
  IN  IF ~isdigit(digits) THEN [exc |-> "ValueError", ret |-> None]
      ELSE IF signed /\ Head(stripped) = "-"
      THEN [exc |-> "", ret |-> 0 - DecimalValue(digits)]
      ELSE [exc |-> "", ret |-> DecimalValue(digits)]

\* str(n) of an integer.
RECURSIVE str(_)
str(n) ==
  IF n < 0 THEN <<"-">> \o str(0 - n)
  ELSE IF n < Len(Digits) THEN <<Digits[n + 1]>>
  ELSE str(n \div Len(Digits)) \o <<Digits[(n % Len(Digits)) + 1]>>

\* --------------------------------------------------------- the two files
\* settings.ini as configparser reads it: [parses |-> FALSE] for a file
\* config.read() raises on, else its sections, each a function from option
\* to text (the book a string).
\* usertranslations.json: book -> str(chapter) -> str(verse) -> translation.

\* translations.get(book, {}).get(str(chapter), {}).get(str(verse)), or None
\* when the file does not exist (data_structures.py 265-272).
TranslationIn(translations, book, chapter, verse) ==
  IF translations = None THEN None
  ELSE IF book \notin DOMAIN translations THEN None
  ELSE IF str(chapter) \notin DOMAIN translations[book] THEN None
  ELSE IF str(verse) \notin DOMAIN translations[book][str(chapter)] THEN None
  ELSE PyStr(translations[book][str(chapter)][str(verse)])

load_user_translation(book, chapter, verse) ==
  TranslationIn(user_translations, book, chapter, verse)

\* load_user_translations(): {} when the file does not exist.
load_user_translations == IF user_translations = None THEN <<>> ELSE user_translations

\* Mutant: the chapter's dict is replaced, not extended.
save_user_translation_NewChapter(book, chapter, verse, translation) ==
  LET translations == load_user_translations
      chapters == IF book \in DOMAIN translations THEN translations[book] ELSE <<>>
  IN  (book :> ((str(chapter) :> (str(verse) :> translation)) @@ chapters))
        @@ translations

\* save_user_translation(book, chapter, verse, translation): the file after
\* translations.setdefault(book, {}).setdefault(str(chapter), {})[str(verse)]
\* = translation and json.dump, which writes the dict of strings as it is.
save_user_translation(book, chapter, verse, translation) ==
  LET translations == load_user_translations
      chapters == IF book \in DOMAIN translations THEN translations[book] ELSE <<>>
      verses == IF str(chapter) \in DOMAIN chapters THEN chapters[str(chapter)] ELSE <<>>
  IN  (book :> ((str(chapter) :> ((str(verse) :> translation) @@ verses)) @@ chapters))
        @@ translations

\* The window section save_last_verse writes: x, y, width and height of the
\* window, which nothing else here reads.
Geometry ==
  [x |-> str(100), y |-> str(100), width |-> str(1300), height |-> str(800)]

\* int(config[...].get(option, default))
ConfigInt(section, option, default) ==
  IF option \in DOMAIN section THEN int(section[option])
  ELSE [exc |-> "", ret |-> default]

fallback == <<PyStr("Matthew"), 1, 1>>

\* load_last_verse, lines 502-510: what the last_verse section makes of the
\* address. get_greek_text of a book the registry does not know subscripts
\* None, a TypeError.
ReadLastVerse(config, current) ==
  IF "last_verse" \notin DOMAIN config.sections
  THEN [exc |-> "", ret |-> current]
  ELSE LET section == config.sections["last_verse"]
           book == IF "book" \in DOMAIN section THEN PyStr(section["book"])
                   ELSE fallback[1]
           chapter == ConfigInt(section, "chapter", fallback[2])
           verse == ConfigInt(section, "verse", fallback[3])
       IN  IF chapter.exc # "" THEN [exc |-> chapter.exc, ret |-> None]
           ELSE IF verse.exc # "" THEN [exc |-> verse.exc, ret |-> None]
           ELSE IF get_book_data(book) = None THEN [exc |-> "TypeError", ret |-> None]
           ELSE IF get_greek_text(book, chapter.ret, verse.ret) # <<>>
           THEN [exc |-> "", ret |-> <<book, chapter.ret, verse.ret>>]
           ELSE [exc |-> "", ret |-> current]

\* load_last_verse, lines 511-519: the window section returns from the
\* method, or raises on an option that is no number; without the section
\* the method goes on.
ReadWindow(config) ==
  IF "window" \notin DOMAIN config.sections THEN "goes on"
  ELSE LET section == config.sections["window"]
       IN  IF \E option \in {"x", "y", "width", "height"} :
                ConfigInt(section, option, 0).exc # ""
           THEN "raises"
           ELSE "returns"

\* load_last_verse(): the address the window has after it, from the address
\* it had (the one __init__ assigned). except Exception: pass leads to the
\* fallback assignment of line 522, and so does the end of the try block.
load_last_verse(config, current) ==
  IF config = None THEN fallback
  ELSE IF ~config.parses THEN fallback
  ELSE LET last == ReadLastVerse(config, current)
       IN  IF last.exc # "" THEN fallback
           ELSE IF ReadWindow(config) = "returns" THEN last.ret
           ELSE fallback

\* Mutant: save_last_verse() without the look at the Greek text.
save_last_verse_Always(config, current) ==
  IF config # None /\ ~config.parses
  THEN [exc |-> "configparser.Error", file |-> config]
  ELSE LET written == [last_verse |-> [book |-> current[1].str,
                                       chapter |-> str(current[2]),
                                       verse |-> str(current[3])],
                       window |-> Geometry]
           kept == IF config = None THEN <<>> ELSE config.sections
       IN  [exc |-> "", file |-> [parses |-> TRUE, sections |-> written @@ kept]]

\* save_last_verse(): the file after it. Nothing is written for an address
\* without Greek text; else the file is read (config.read raises on a file
\* that does not parse), the two sections are replaced and it is written.
save_last_verse(config, current) ==
  IF get_greek_text(current[1], current[2], current[3]) = <<>>
  THEN [exc |-> "", file |-> config]
  ELSE IF config # None /\ ~config.parses
  THEN [exc |-> "configparser.Error", file |-> config]
  ELSE LET written == [last_verse |-> [book |-> current[1].str,
                                       chapter |-> str(current[2]),
                                       verse |-> str(current[3])],
                       window |-> Geometry]
           kept == IF config = None THEN <<>> ELSE config.sections
       IN  [exc |-> "", file |-> [parses |-> TRUE, sections |-> written @@ kept]]

\* update_verse() at an address, called when the translation file is
\* translations and the changed flag is changed: the settings file saved,
\* the translation box set to the stored translation or "" and the changed
\* flag cleared. An exception of save_last_verse leaves the method, and ends
\* the program.
update_verse_after(current, translations, changed) ==
  \E saved \in {save_last_verse(settings, current)},
     user_translation \in {TranslationIn(translations, current[1].str, current[2], current[3])} :
      IF saved.exc # ""
      THEN /\ phase' = "crashed"
           /\ outcome' = Raises(saved.exc)
           /\ translation_changed' = changed
           /\ UNCHANGED <<settings, translation_input>>
      ELSE /\ phase' = "running"
           /\ outcome' = Returns(current[1], current[2], current[3], 0)
           /\ settings' = saved.file
           /\ translation_input' = IF user_translation = None THEN ""
                                   ELSE user_translation.str
           /\ translation_changed' = FALSE

\* update_verse() where nothing was saved or answered before it.
update_verse(current) == update_verse_after(current, user_translations, translation_changed)

\* jump_to_reference() without the look at the Greek text.
jump_to_reference_NoDataCheck(book, chapter, verse) ==
  IF book = PyStr("") \/ ~isdigit(strip(chapter)) \/ ~isdigit(strip(verse))
  THEN "Invalid Reference"
  ELSE ""

\* jump_to_reference(): "" when the jump is made, else the warning shown.
jump_to_reference(book, chapter, verse) ==
  IF book = PyStr("") \/ ~isdigit(strip(chapter)) \/ ~isdigit(strip(verse))
  THEN "Invalid Reference"
  ELSE IF get_greek_text(book, int(strip(chapter)).ret, int(strip(verse)).ret) = <<>>
  THEN "Reference Not Found"
  ELSE ""

\* --------------------------------------------------- the window's inputs
\* Settings files: none, one that does not parse, and the files with or
\* without a last_verse section (a full name, an abbreviation, an unknown
\* book; numbers inside and outside the data, no number, no chapter option)
\* and with or without a window section (numbers, or a width that is none).
SettingsBooks == {"Mark", "Mt", "Genesis"}
SettingsChapters == {str(1), str(MaxChapter + 1)}
SettingsVerses == {str(MaxVerse), <<"x">>}

LastVerseSections ==
  [book : SettingsBooks, chapter : SettingsChapters, verse : SettingsVerses]
    \cup [book : SettingsBooks, verse : SettingsVerses]

WindowSections == {Geometry, [Geometry EXCEPT !.width = <<"w", "i", "d", "e">>]}

SettingsFiles ==
  {None, [parses |-> FALSE]}
    \cup {[parses |-> TRUE, sections |-> sections] :
            sections \in {<<>>}
              \cup {[last_verse |-> l] : l \in LastVerseSections}
              \cup {[window |-> w] : w \in WindowSections}
              \cup {[last_verse |-> l, window |-> w] :
                      l \in LastVerseSections, w \in WindowSections}}

\* A translation file with one entry, and none.
TranslationFiles ==
  {None, [b \in {"Matthew"} |-> [c \in {str(1)} |-> [v \in {str(1)} |-> "In the beginning"]]]}

\* What the user can put into the jump controls: a book of the combo box
\* (full names, gui 258-260) and two texts.
JumpBooks == FullNames({i \in DOMAIN NEW_TESTAMENT :
                          NEW_TESTAMENT[i][2] \in {"Matthew", "John", "Revelation"}})
ChapterTexts == {str(1), str(MaxChapter), str(MaxChapter + 1), <<>>, <<" ", "1">>}
VerseTexts == {str(1), str(MaxVerse), <<"x">>}

\* The MorphGNT data the window runs on: every chapter with the same number
\* of verses, the first chapter without verses, and only the first chapter
\* with verses; the books at even positions have the chapters the other
\* way round.
GuiExtents ==
  {[c \in 1..MaxChapter |-> n] : n \in 1..MaxVerse}
    \cup {[c \in 1..MaxChapter |-> IF c = 1 THEN 0 ELSE MaxVerse],
          [c \in 1..MaxChapter |-> IF c = 1 THEN MaxVerse ELSE 0]}
GuiStores == {Layout(Verses(e), Verses(Reverse(e))) : e \in GuiExtents}

\* ---------------------------------------------------- the window's actions
\* Before __init__ has loaded the last verse: the address of lines 46-48.
InitGUI ==
  /\ store \in GuiStores
  /\ settings \in SettingsFiles
  /\ user_translations \in TranslationFiles
  /\ current_book = PyStr("John")
  /\ current_chapter = 1
  /\ current_verse = 1
  /\ translation_input = ""
  /\ translation_changed = FALSE
  /\ phase = "constructing"
  /\ mode = ""
  /\ arg = None
  /\ outcome = [exc |-> "", ret |-> None, scans |-> 0]

\* __init__ (gui 42-58): load_last_verse(), then update_verse().
Construct ==
  /\ phase = "constructing"
  /\ LET loaded == load_last_verse(settings, <<current_book, current_chapter, current_verse>>)
     IN  /\ current_book' = loaded[1]
         /\ current_chapter' = loaded[2]
         /\ current_verse' = loaded[3]
         /\ update_verse(loaded)
  /\ mode' = "__init__"
  /\ arg' = <<settings>>
  /\ UNCHANGED <<store, user_translations>>

\* The Go to Reference button (gui 583-599) with the controls holding book,
\* chapter and verse.
JumpTo(book, chapter, verse) ==
  \E warning \in {jump_to_reference(book, chapter, verse)},
     target \in {<<book, int(strip(chapter)).ret, int(strip(verse)).ret>>} :
      /\ mode' = "jump_to_reference"
      /\ arg' = <<book, chapter, verse>>
      /\ IF warning # ""
         THEN /\ outcome' = Raises(warning)
              /\ UNCHANGED <<address, settings, widgets, phase>>
         ELSE /\ current_book' = target[1]
              /\ current_chapter' = target[2]
              /\ current_verse' = target[3]
              /\ update_verse(target)

JumpToReference ==
  /\ phase = "running"
  /\ \E book \in JumpBooks, chapter \in ChapterTexts, verse \in VerseTexts :
       JumpTo(book, chapter, verse)
  /\ UNCHANGED <<store, user_translations>>

NextGUI ==
  \/ Construct
  \/ JumpToReference

SpecGUI == InitGUI /\ [][NextGUI]_vars


\* ------------------------------------------------- the claims on the window
\* The last position a settings file holds: the book, chapter and verse of
\* its last_verse section, None when the file is absent or unreadable or
\* holds no such position.
PersistedPosition(file) ==
  IF file = None THEN None
  ELSE IF ~file.parses THEN None
  ELSE IF "last_verse" \notin DOMAIN file.sections THEN None
  ELSE LET section == file.sections["last_verse"]
       IN  IF {"book", "chapter", "verse"} \ DOMAIN section # {} THEN None
           ELSE IF ~isdigit(section["chapter"]) \/ ~isdigit(section["verse"]) THEN None
           ELSE <<PyStr(section["book"]),
                  DecimalValue(section["chapter"]), DecimalValue(section["verse"])>>
\* ... and that position is a valid address.
PersistedValid(file) ==
  LET position == PersistedPosition(file)
  IN  /\ position # None
      /\ get_book_data(position[1]) # None
      /\ Valid(position)
\* The window has been constructed from the settings file arg[1].
Constructed == mode = "__init__"

\* C11 (as stated): at startup the current address is the persisted last
\* position if the settings file holds one that is a valid address, and
\* Matthew 1:1 otherwise, whatever other sections the file has or lacks.
\* The code returns the persisted position only from inside its window
\* branch: a file without a (well-formed) window section starts at Matthew
\* 1:1 even with a valid last position, and a file with a window section and
\* no valid last position starts at the address __init__ assigned, John 1:1.
C11_StartupAddress ==
  Constructed =>
    IF PersistedValid(arg[1])
    THEN <<current_book, current_chapter, current_verse>> = PersistedPosition(arg[1])
    ELSE <<current_book, current_chapter, current_verse>> = <<PyStr("Matthew"), 1, 1>>


\* The numbers a reference can name here, and the number a text of the jump
\* controls names: the text without the blanks around it is the decimal
\* numeral of a number; None for a text that names none.
ReferenceNumbers == 0..(MaxChapter + MaxVerse)
NumberNamed(text) ==
  LET trimmed == strip(text)
      named == {n \in ReferenceNumbers : trimmed = str(n)}
  IN  IF named = {} THEN None ELSE <<CHOOSE n \in named : TRUE>>
\* The address a jump request (book, chapter text, verse text) names, None
\* for a malformed request.
Requested(request) ==
  LET chapter == NumberNamed(request[2])
      verse == NumberNamed(request[3])
  IN  IF chapter = None \/ verse = None THEN None
      ELSE <<request[1], chapter[1], verse[1]>>

\* C12: a jump to a malformed reference or to one without verse data leaves
\* the current book, chapter and verse, the persisted last position and the
\* user-translation store unchanged; a jump to a valid address replaces the
\* three fields of the current address with it.
C12_JumpCommits ==
  [][mode' = "jump_to_reference" =>
       \A target \in {Requested(arg')} :
           IF target # None /\ HasRecord(PositionOf(target[1]), target[2], target[3])
           THEN /\ current_book' = target[1]
                /\ current_chapter' = target[2]
                /\ current_verse' = target[3]
           ELSE UNCHANGED <<current_book, current_chapter, current_verse,
                            settings, user_translations>>]_vars

\* A jump to Revelation was made, the position persisted and a translation
\* file is there, and the last jump asked for a chapter without data.
C12_Witness ==
  /\ mode = "jump_to_reference"
  /\ outcome.exc = "Reference Not Found"
  /\ current_book = PyStr("Revelation")
  /\ PersistedPosition(settings) = <<current_book, current_chapter, current_verse>>
  /\ user_translations # None
  /\ arg[1] # current_book


\* ================================================= get_greek_text, called
\* What a call of get_greek_text(book, chapter, verse) can do, for any
\* identifier (data_structures.py 274-293). An identifier the registry does
\* not know makes book_data None, and None[0] a TypeError. An integer makes
\* book_num the full name: the library is then asked for the rows of a book
\* number that is a string, which it either refuses with an exception or
\* answers with rows none of which has b == book_num, b being an integer.
get_greek_text_outcomes(book, chapter, verse) ==
  LET book_data == get_book_data(book)
  IN  IF book_data = None
      THEN {Raises("TypeError")}
      ELSE IF ~IsInt(book_data[1])
      THEN {Raises("TypeError"), [exc |-> "", ret |-> <<>>, scans |-> 1]}
      ELSE {[exc |-> "", ret |-> get_greek_text(book, chapter, verse), scans |-> 1]}

\* The identifiers tried: every form of the first two books, the full name
\* of the last, and identifiers the registry does not know.
TextIdentifiers ==
  OtherForms({1, 2}) \cup FullNames({1, 2, Len(NEW_TESTAMENT)}) \cup UnknownIdentifiers

\* An address to ask for, the data and a translation file.
InitText ==
  /\ store \in Stores
  /\ current_book \in TextIdentifiers
  /\ current_chapter \in 1..(MaxChapter + 1)
  /\ current_verse \in 1..(MaxVerse + 1)
  /\ settings = None
  /\ user_translations \in TranslationFiles
  /\ translation_input = ""
  /\ translation_changed = FALSE
  /\ phase = "running"
  /\ mode = ""
  /\ arg = None
  /\ outcome = [exc |-> "", ret |-> None, scans |-> 0]

\* get_greek_text(current_book, current_chapter, current_verse), once.
CallGetGreekText ==
  /\ mode = ""
  /\ mode' = "get_greek_text"
  /\ arg' = <<current_book, current_chapter, current_verse>>
  /\ outcome' \in get_greek_text_outcomes(current_book, current_chapter, current_verse)
  /\ UNCHANGED <<store, address, files, widgets, phase>>

NextText == CallGetGreekText

SpecText == InitText /\ [][NextText]_vars

\* The position of the book an identifier the registry resolves stands for:
\* the integer itself, or the position of the book a string names.
BookPosition(identifier) ==
  IF IsInt(identifier) THEN identifier.int ELSE PositionOf(identifier)

\* C13 (as stated): for every address whose book resolves, the validity check
\* (get_greek_text returns a non-empty list) is true exactly when the store
\* holds a record of that book position, chapter and verse. It fails for a
\* book given by its integer position: the test is never true for it.
C13_ValidIffRecord ==
  (mode = "get_greek_text" /\ get_book_data(arg[1]) # None) =>
    ((outcome.exc = "" /\ outcome.ret # <<>>)
       <=> HasRecord(BookPosition(arg[1]), arg[2], arg[3]))


\* =================================================== the extent scans, called
\* The rows of a book in any order, rows of one verse repeated or not: every
\* sequence of up to MaxRows rows over the chapters and verses.
RECURSIVE RowOrders(_)
RowOrders(n) ==
  IF n = 0 THEN {<<>>}
  ELSE RowOrders(n - 1)
         \cup {Append(rows, cv) : rows \in {r \in RowOrders(n - 1) : Len(r) = n - 1},
                                  cv \in (1..MaxChapter) \X (1..MaxVerse)}

\* The data with the given rows for one book and none for the others.
OneBook(book_num, order) ==
  [b \in DOMAIN NEW_TESTAMENT |->
     IF b = book_num
     THEN [i \in DOMAIN order |-> [bcv |-> Bcv(b, order[i][1], order[i][2])]]
     ELSE <<>>]

ScannedBooks == FullNames({1, 2})

\* A book with rows in some order, and a chapter to scan for.
InitExtent ==
  /\ current_book \in ScannedBooks
  /\ store \in {OneBook(get_book_data(current_book)[1].int, order) :
                  order \in RowOrders(MaxRows)}
  /\ current_chapter \in 1..(MaxChapter + 1)
  /\ current_verse = 1
  /\ settings = None
  /\ user_translations = None
  /\ translation_input = ""
  /\ translation_changed = FALSE
  /\ phase = "running"
  /\ mode = ""
  /\ arg = None
  /\ outcome = [exc |-> "", ret |-> None, scans |-> 0]

\* get_max_chapter(book_num) and get_max_verse(book_num, current_chapter),
\* once, with book_num as navigate_verse takes it from the registry.
CallExtents ==
  /\ mode = ""
  /\ mode' = "extents"
  /\ arg' = <<current_book, current_chapter, current_verse>>
  /\ LET book_num == get_book_data(current_book)[1].int
     IN  outcome' = [exc |-> "",
                     ret |-> <<get_max_chapter(book_num),
                               get_max_verse(book_num, current_chapter)>>,
                     scans |-> 2]
  /\ UNCHANGED <<store, address, files, widgets, phase>>

NextExtent == CallExtents

SpecExtent == InitExtent /\ [][NextExtent]_vars

\* C14: get_max_chapter is the largest chapter among the records of the book
\* and get_max_verse the largest verse among its records of the chapter, 0
\* when there is none, in whatever order the records are iterated.
C14_ExtentsAreMaxima ==
  mode = "extents" =>
    /\ outcome.ret[1] = max_chapter(PositionOf(arg[1]))
    /\ outcome.ret[2] = max_verse(PositionOf(arg[1]), arg[2])

\* The scans ran over rows whose highest chapter comes neither first nor
\* last, for a chapter whose highest verse does not come last either.
C14_Witness ==
  /\ mode = "extents"
  /\ LET rows == store[PositionOf(arg[1])]
     IN  /\ Len(rows) = MaxRows
         /\ BcvChapter(rows[1]) < outcome.ret[1]
         /\ BcvChapter(rows[Len(rows)]) < outcome.ret[1]
         /\ BcvChapter(rows[1]) = arg[2]
         /\ BcvChapter(rows[Len(rows)]) = arg[2]
         /\ BcvVerse(rows[Len(rows)]) < outcome.ret[2]


\* ===================================================== the registry, called
\* Every identifier a book has (full name, abbreviation, alternate
\* abbreviation, position) and identifiers the registry does not know.
AllIdentifiers ==
  FullNames(DOMAIN NEW_TESTAMENT) \cup OtherForms(DOMAIN NEW_TESTAMENT)
    \cup UnknownIdentifiers

\* An identifier to look up.
InitRegistry ==
  /\ store = [b \in DOMAIN NEW_TESTAMENT |-> <<>>]
  /\ current_book \in AllIdentifiers
  /\ current_chapter = 1
  /\ current_verse = 1
  /\ settings = None
  /\ user_translations = None
  /\ translation_input = ""
  /\ translation_changed = FALSE
  /\ phase = "running"
  /\ mode = ""
  /\ arg = None
  /\ outcome = [exc |-> "", ret |-> None, scans |-> 0]

\* get_book_data(current_book), once.
CallGetBookData ==
  /\ mode = ""
  /\ mode' = "get_book_data"
  /\ arg' = <<current_book>>
  /\ outcome' = [exc |-> "", ret |-> get_book_data(current_book), scans |-> 0]
  /\ UNCHANGED <<store, address, files, widgets, phase>>

\* The loop of navigate_verse that looks for the offset of the book whose
\* number is current_book (data_structures.py 311-316), once.
CallFindBookIdx ==
  /\ mode = ""
  /\ mode' = "book_idx"
  /\ arg' = <<current_book>>
  /\ outcome' = [exc |-> "", ret |-> FindBookIdx(current_book), scans |-> 0]
  /\ UNCHANGED <<store, address, files, widgets, phase>>

NextRegistry ==
  \/ CallGetBookData
  \/ CallFindBookIdx

SpecRegistry == InitRegistry /\ [][NextRegistry]_vars

\* The books (offsets into the registry, from 1) that have the string as
\* full name, as abbreviation, as alternate abbreviation.
NamedBy(s) == {i \in DOMAIN NEW_TESTAMENT : NEW_TESTAMENT[i][2] = s}
AbbreviatedBy(s) == {i \in DOMAIN NEW_TESTAMENT : NEW_TESTAMENT[i][3] = s}
AlternativelyBy(s) == {i \in DOMAIN NEW_TESTAMENT : NEW_TESTAMENT[i][5] = s}
\* get_book_data was called with a string, with an integer.
LookedUpString == mode = "get_book_data" /\ ~IsInt(arg[1])
LookedUpInteger == mode = "get_book_data" /\ IsInt(arg[1])

\* C15: resolving a book by its full name, by its abbreviation and by its
\* alternate abbreviation yields the same position, the book's own.
C15_SamePosition ==
  LookedUpString =>
    \A i \in NamedBy(arg[1].str) \cup AbbreviatedBy(arg[1].str)
               \cup AlternativelyBy(arg[1].str) :
      /\ outcome.ret # None
      /\ outcome.ret[1] = PyInt(NEW_TESTAMENT[i][1])

\* Philemon was resolved by its alternate abbreviation, which is neither its
\* full name nor its abbreviation.
C15_Witness ==
  /\ LookedUpString
  /\ arg[1] = PyStr("Philem")
  /\ outcome.ret # None
  /\ outcome.ret[1] = PyInt(18)

\* What the tables hold for a book: its other three fields, in the order of
\* position, full name, abbreviation, alternate abbreviation.
ByName(i) ==
  <<PyInt(NEW_TESTAMENT[i][1]), PyStr(NEW_TESTAMENT[i][3]), PyStr(NEW_TESTAMENT[i][5])>>
ByAbbreviation(i) ==
  <<PyInt(NEW_TESTAMENT[i][1]), PyStr(NEW_TESTAMENT[i][2]), PyStr(NEW_TESTAMENT[i][5])>>
ByAlternate(i) ==
  <<PyInt(NEW_TESTAMENT[i][1]), PyStr(NEW_TESTAMENT[i][2]), PyStr(NEW_TESTAMENT[i][3])>>
ByPosition(i) ==
  <<PyStr(NEW_TESTAMENT[i][2]), PyStr(NEW_TESTAMENT[i][3]), PyStr(NEW_TESTAMENT[i][5])>>

\* C16: a string is looked up as a full name first, then as an
\* abbreviation, then as an alternate abbreviation, and the first match is
\* returned; an integer is looked up by position only, never as a string; an
\* identifier in no table (an integer outside 1..N included) yields None,
\* and no lookup raises.
C16_LookupOrder ==
  /\ mode = "get_book_data" => outcome.exc = ""
  /\ LookedUpString =>
       LET s == arg[1].str
       IN  IF NamedBy(s) # {} THEN \E i \in NamedBy(s) : outcome.ret = ByName(i)
           ELSE IF AbbreviatedBy(s) # {}
           THEN \E i \in AbbreviatedBy(s) : outcome.ret = ByAbbreviation(i)
           ELSE IF AlternativelyBy(s) # {}
           THEN \E i \in AlternativelyBy(s) : outcome.ret = ByAlternate(i)
           ELSE outcome.ret = None
  /\ LookedUpInteger =>
       IF arg[1].int \in 1..Len(NEW_TESTAMENT)
       THEN \E i \in DOMAIN NEW_TESTAMENT :
              NEW_TESTAMENT[i][1] = arg[1].int /\ outcome.ret = ByPosition(i)
       ELSE outcome.ret = None

\* "Mark", a full name and an alternate abbreviation, came back as the full
\* name's entry.
C16_Witness ==
  /\ LookedUpString
  /\ arg[1] = PyStr("Mark")
  /\ outcome.ret = <<PyInt(2), PyStr("Mk"), PyStr("Mark")>>

\* The number of string tables that have the key.
TablesHolding(s) ==
  Cardinality({t \in {"name", "abbreviation", "alternate"} :
                 \/ t = "name" /\ s \in DOMAIN SHORT_NAME_TO_DATA
                 \/ t = "abbreviation" /\ s \in DOMAIN ABBREV_TO_DATA
                 \/ t = "alternate" /\ s \in DOMAIN KJV_ABBREV_TO_DATA})

\* C17 (as stated): the tables of full names, of abbreviations and of
\* alternate abbreviations are pairwise disjoint: no string looked up is a
\* key of more than one of them.
C17_Disjoint ==
  LookedUpString => TablesHolding(arg[1].str) <= 1

\* The position each string table that has the key holds for it.
PositionsHeld(s) ==
  {SHORT_NAME_TO_DATA[k][1] : k \in {s} \cap DOMAIN SHORT_NAME_TO_DATA}
    \cup {ABBREV_TO_DATA[k][1] : k \in {s} \cap DOMAIN ABBREV_TO_DATA}
    \cup {KJV_ABBREV_TO_DATA[k][1] : k \in {s} \cap DOMAIN KJV_ABBREV_TO_DATA}
\* C17 (amended): a string that is a key of more than one of the three
\* tables stands for the same book in each of them, so the position it
\* resolves to does not depend on the order the tables are tried in.
C17_SharedKeysAgree ==
  (LookedUpString /\ TablesHolding(arg[1].str) > 1) =>
    PositionsHeld(arg[1].str) = {outcome.ret[1]}

\* "Acts", a key of all three tables, was resolved.
C17_Witness ==
  /\ LookedUpString
  /\ arg[1] = PyStr("Acts")
  /\ TablesHolding("Acts") = 3
  /\ outcome.ret[1] = PyInt(5)

TranslationKeys == {"Matthew", "Mark"} \X {1, 2} \X {1, 12}
Translations == {"In the beginning", "And it came to pass"}

\* The number of translations a file holds.
Entries(file) ==
  Cardinality({k \in (DOMAIN file) \X {str(c) : c \in {1, 2}} \X {str(v) : v \in {1, 12}} :
                 /\ k[2] \in DOMAIN file[k[1]]
                 /\ k[3] \in DOMAIN file[k[1]][k[2]]})

\* No translation file yet.
InitTranslations ==
  /\ store = [b \in DOMAIN NEW_TESTAMENT |-> <<>>]
  /\ current_book = PyStr("Matthew")
  /\ current_chapter = 1
  /\ current_verse = 1
  /\ settings = None
  /\ user_translations = None
  /\ translation_input = ""
  /\ translation_changed = FALSE
  /\ phase = "running"
  /\ mode = ""
  /\ arg = None
  /\ outcome = [exc |-> "", ret |-> None, scans |-> 0]

\* save_user_translation(book, chapter, verse, translation), while the file
\* holds fewer than MaxEntries translations or one is written over.
CallSaveUserTranslation ==
  \E k \in TranslationKeys, translation \in Translations :
    /\ \/ Entries(load_user_translations) < MaxEntries
       \/ load_user_translation(k[1], k[2], k[3]) # None
    /\ mode' = "save_user_translation"
    /\ arg' = <<k[1], k[2], k[3], translation>>
    /\ outcome' = [exc |-> "", ret |-> None, scans |-> 0]
    /\ user_translations' = save_user_translation(k[1], k[2], k[3], translation)
    /\ UNCHANGED <<store, address, settings, widgets, phase>>

\* load_user_translation(book, chapter, verse)
CallLoadUserTranslation ==
  \E k \in TranslationKeys :
    /\ mode' = "load_user_translation"
    /\ arg' = <<k[1], k[2], k[3]>>
    /\ outcome' = [exc |-> "", ret |-> load_user_translation(k[1], k[2], k[3]), scans |-> 0]
    /\ UNCHANGED <<store, address, files, widgets, phase>>

NextTranslations ==
  \/ CallSaveUserTranslation
  \/ CallLoadUserTranslation

SpecTranslations == InitTranslations /\ [][NextTranslations]_vars

\* A step that saves a translation: the key saved then reads as the text
\* saved and every other key as it read before.
SaveStep ==
  mode' = "save_user_translation" =>
    \A k \in TranslationKeys :
      load_user_translation(k[1], k[2], k[3])' =
        IF k = <<arg'[1], arg'[2], arg'[3]>> THEN PyStr(arg'[4])
        ELSE load_user_translation(k[1], k[2], k[3])
\* A step that loads a translation: it returns what the file holds and
\* writes nothing.
LoadStep ==
  mode' = "load_user_translation" =>
    /\ UNCHANGED user_translations
    /\ outcome'.ret = load_user_translation(arg'[1], arg'[2], arg'[3])

\* C19: after save_user_translation(book, chapter, verse, text),
\* load_user_translation(book, chapter, verse) returns text, the book and
\* chapter levels created where they were missing; the entry of every other
\* key is what it was; a load writes nothing; and before any save every key
\* reads as absent, so a key never written does.
C19_RoundTripAndFrame ==
  /\ \A k \in TranslationKeys : load_user_translation(k[1], k[2], k[3]) = None
  /\ [][SaveStep /\ LoadStep]_vars

\* A translation was saved for a verse of a chapter that had one for another
\* verse already, in a file that holds no other book.
C19_Witness ==
  /\ mode = "save_user_translation"
  /\ DOMAIN user_translations = {arg[1]}
  /\ DOMAIN user_translations[arg[1]] = {str(arg[2])}
  /\ Entries(user_translations) = MaxEntries
  /\ load_user_translation(arg[1], arg[2], arg[3]) = PyStr(arg[4])


\* ============================================ navigate_verse and identifiers
\* C20 (as stated): navigate_verse depends on the book only through its
\* identity: with any other identifier of the same book (full name,
\* abbreviation, alternate abbreviation or integer position) and the same
\* chapter, verse and directive the result is the same, and the book of a
\* returned address is the full name of a registry book. It fails for the
\* integer position, with which every call raises.
C20_IdentifierIndependent ==
  (arg # None /\ mode \in Modes /\ get_book_data(arg[1]) # None) =>
    /\ \A identifier \in KnownIdentifiers :
         BookPosition(identifier) = BookPosition(arg[1]) =>
           LET other == navigate_verse(identifier, arg[2], arg[3], mode)
           IN  other.exc = outcome.exc /\ other.ret = outcome.ret
    /\ outcome.exc = "" =>
         \E i \in DOMAIN NEW_TESTAMENT : outcome.ret[1] = PyStr(NEW_TESTAMENT[i][2])


\* ======================================== navigation and the verse data
\* Every book of the store holds a record.
EveryBookHasRecord == \A b \in DOMAIN NEW_TESTAMENT : Records(b) # {}

\* C21 (as stated): in a store in which every book has a record, each of the
\* four directives applied to a valid address returns a valid address. The
\* code steps by the extents only: a chapter below the highest that has no
\* record, or a verse below the highest that has none, is stepped onto.
C21_ValidityPreserved ==
  (arg # None /\ mode \in Modes /\ NamedBook /\ EveryBookHasRecord /\ Valid(arg)) =>
    (Returned /\ Valid(outcome.ret))


\* ================================================== stepping to an end
\* A caller that applies one stepping directive again and again, as the
\* window does for a user holding the next or the previous button: the
\* directive is chosen at the start and every call is given the address the
\* call before returned. Every call ends (the scans run over finite row
\* lists), so the caller's next call is always taken: weak fairness.
StepIdentifiers == FullNames({1, LastPosition}) \cup OtherForms({2})

InitStep ==
  /\ store \in Stores
  /\ current_book \in StepIdentifiers
  /\ current_chapter \in 1..(MaxChapter + 1)
  /\ current_verse \in 1..(MaxVerse + 1)
  /\ settings = None
  /\ user_translations = None
  /\ translation_input = ""
  /\ translation_changed = FALSE
  /\ phase = "running"
  /\ mode \in {"next_verse", "previous_verse"}
  /\ arg = None
  /\ outcome = [exc |-> "", ret |-> None, scans |-> 0]

RepeatNextVerse ==
  /\ mode = "next_verse"
  /\ Call("next_verse")
  /\ UNCHANGED <<store, files, widgets, phase>>

RepeatPreviousVerse ==
  /\ mode = "previous_verse"
  /\ Call("previous_verse")
  /\ UNCHANGED <<store, files, widgets, phase>>

NextStep ==
  \/ RepeatNextVerse
  \/ RepeatPreviousVerse

SpecStep ==
  InitStep /\ [][NextStep]_vars /\ WF_vars(RepeatNextVerse) /\ WF_vars(RepeatPreviousVerse)

\* The address is in the book at the position and directive m returns it
\* unchanged.
RestsAt(m, position) ==
  /\ get_book_data(current_book) # None
  /\ BookPosition(current_book) = position
  /\ LET result == navigate_verse(current_book, current_chapter, current_verse, m)
     IN  /\ result.exc = ""
         /\ result.ret[2] = current_chapter
         /\ result.ret[3] = current_verse
         /\ get_book_data(result.ret[1]) # None
         /\ BookPosition(result.ret[1]) = position

\* C22 (as stated): from every address whose book resolves, next_verse
\* applied repeatedly reaches an address in the last book that next_verse
\* leaves unchanged, and previous_verse applied repeatedly reaches an address
\* in the first book that previous_verse leaves unchanged. It fails for a
\* book given by its integer position: every call raises and the address
\* never moves.
C22_SteppingEnds ==
  (get_book_data(current_book) # None) =>
    <>(\/ mode = "next_verse" /\ RestsAt("next_verse", LastPosition)
       \/ mode = "previous_verse" /\ RestsAt("previous_verse", 1))


\* ============================================================ monotonic
\* The canonical order of addresses: by book position, then chapter, then
\* verse.
Before(a, b) ==
  LET p == BookPosition(a[1])
      q == BookPosition(b[1])
  IN  \/ p < q
      \/ p = q /\ a[2] < b[2]
      \/ p = q /\ a[2] = b[2] /\ a[3] < b[3]

\* The last call was given a resolvable book and a positive chapter and
\* verse, and returned an address.
SteppedFrom(m) ==
  /\ Called(m) /\ Returned
  /\ get_book_data(arg[1]) # None
  /\ arg[2] > 0 /\ arg[3] > 0

\* The cases in which the stepping directives return their input: at or
\* past the last verse of the last chapter of the last book, and at the
\* first verse of the first chapter of the first book.
NothingAfter(a) ==
  LET b == BookPosition(a[1])
  IN  b = LastPosition /\ a[2] >= max_chapter(b) /\ a[3] >= max_verse(b, a[2])
NothingBefore(a) == BookPosition(a[1]) = 1 /\ a[2] <= 1 /\ a[3] <= 1

\* C23: in the order (book position, chapter, verse) next_verse never
\* returns an address earlier than its input and previous_verse never one
\* later, for every store and every address with a resolvable book and a
\* positive chapter and verse; the result equals the input only in the
\* branch that returns the input unchanged.
C23_Monotonic ==
  /\ SteppedFrom("next_verse") =>
       /\ ~Before(outcome.ret, arg)
       /\ ~Before(arg, outcome.ret) => NothingAfter(arg)
  /\ SteppedFrom("previous_verse") =>
       /\ ~Before(arg, outcome.ret)
       /\ ~Before(outcome.ret, arg) => NothingBefore(arg)

\* next_verse left a book from its last verse: the chapter and the verse
\* went down and the address is later all the same.
C23_Witness ==
  /\ SteppedFrom("next_verse")
  /\ arg[2] > 1 /\ arg[3] > 1
  /\ outcome.ret[2] = 1 /\ outcome.ret[3] = 1
  /\ Before(arg, outcome.ret)


\* ================================== the window: edits, saving, navigation
\* The translation box, the Save Translation button, the four navigation
\* buttons with the question maybe_save_translation asks, and the jump.

\* save_translation() (gui 530-534): the translation file after it.
save_translation ==
  save_user_translation(current_book.str, current_chapter, current_verse, translation_input)

\* The answers to QMessageBox.question (gui 538); None when the flag is
\* clear and nothing is asked.
Replies == IF translation_changed THEN {"Yes", "No", "Cancel"} ELSE {None}

\* maybe_save_translation() (gui 536-547) with the answer reply: what it
\* returns, the translation file and the changed flag after it.
maybe_save_translation(reply) ==
  IF translation_changed
  THEN IF reply = "Yes"
       THEN [ret |-> TRUE, file |-> save_translation, changed |-> FALSE]
       ELSE IF reply = "No"
       THEN [ret |-> TRUE, file |-> user_translations, changed |-> FALSE]
       ELSE [ret |-> FALSE, file |-> user_translations, changed |-> translation_changed]
  ELSE [ret |-> TRUE, file |-> user_translations, changed |-> translation_changed]

\* A navigation button (gui 555-581): the question, then navigate_verse with
\* the handler's directive, then update_verse(). An exception of
\* navigate_verse leaves the handler after the question was answered.
Navigate(handler, directive) ==
  /\ phase = "running"
  /\ \E reply \in Replies :
       \E asked \in {maybe_save_translation(reply)},
          result \in {navigate_verse(current_book, current_chapter, current_verse, directive)} :
           /\ mode' = handler
           /\ arg' = <<current_book, current_chapter, current_verse, reply>>
           /\ user_translations' = asked.file
           /\ IF ~asked.ret
              THEN /\ outcome' = [exc |-> "", ret |-> None, scans |-> 0]
                   /\ UNCHANGED <<address, settings, widgets, phase>>
              ELSE IF result.exc # ""
              THEN /\ outcome' = result
                   /\ phase' = "crashed"
                   /\ translation_changed' = asked.changed
                   /\ UNCHANGED <<address, settings, translation_input>>
              ELSE /\ current_book' = result.ret[1]
                   /\ current_chapter' = result.ret[2]
                   /\ current_verse' = result.ret[3]
                   /\ update_verse_after(result.ret, asked.file, asked.changed)
  /\ UNCHANGED store

\* The texts the user leaves in the translation box, and the books whose
\* verses the user translates.
Drafts == {"", "In the beginning"}
EditedBooks == FullNames({1, LastPosition})
\* The jump controls in this window: the first and the last book, the first
\* and the highest chapter, the first verse.
WindowJumpBooks == FullNames({1, LastPosition})
WindowChapterTexts == {str(1), str(MaxChapter)}
WindowVerseTexts == {str(1)}

\* The MorphGNT data: books with verses in the first chapter only, the books
\* at even positions in the last chapter only; and the other way round.
WindowStores ==
  {Layout(Verses(e), Verses(Reverse(e))) :
     e \in {[c \in 1..MaxChapter |-> IF c = 1 THEN MaxVerse ELSE 0],
            [c \in 1..MaxChapter |-> IF c = 1 THEN 0 ELSE MaxVerse]}}

\* The settings files: none, one that does not parse, and one that holds
\* Mark 1:1, an address with verses in one of the stores and without in the
\* other.
WindowSettings ==
  {None, [parses |-> FALSE],
   [parses |-> TRUE,
    sections |-> [last_verse |-> [book |-> "Mark", chapter |-> str(1), verse |-> str(1)],
                  window |-> Geometry]]}

InitWindow ==
  /\ store \in WindowStores
  /\ settings \in WindowSettings
  /\ user_translations = None
  /\ current_book = PyStr("John")
  /\ current_chapter = 1
  /\ current_verse = 1
  /\ translation_input = ""
  /\ translation_changed = FALSE
  /\ phase = "constructing"
  /\ mode = ""
  /\ arg = None
  /\ outcome = [exc |-> "", ret |-> None, scans |-> 0]

\* One verse is being translated, in one of the edited books: the file holds
\* no translation yet, or that of the verse shown.
TranslatedHere ==
  /\ current_book \in EditedBooks
  /\ \/ user_translations = None
     \/ load_user_translation(current_book.str, current_chapter, current_verse) # None

\* The user changes the text of the translation box: textChanged calls
\* on_translation_changed (gui 290, 527-528).
EditTranslation ==
  /\ phase = "running"
  /\ TranslatedHere
  /\ \E text \in Drafts \ {translation_input} :
       /\ translation_input' = text
       /\ arg' = <<text>>
  /\ translation_changed' = TRUE
  /\ mode' = "on_translation_changed"
  /\ outcome' = [exc |-> "", ret |-> None, scans |-> 0]
  /\ UNCHANGED <<store, address, files, phase>>

\* The Save Translation button (gui 295, 530-534), for a verse the user
\* translates.
SaveTranslation ==
  /\ phase = "running"
  /\ TranslatedHere
  /\ user_translations' = save_translation
  /\ translation_changed' = FALSE
  /\ mode' = "save_translation"
  /\ arg' = <<current_book, current_chapter, current_verse, translation_input>>
  /\ outcome' = [exc |-> "", ret |-> None, scans |-> 0]
  /\ UNCHANGED <<store, address, settings, translation_input, phase>>

NextVerseButton ==
  /\ Navigate("next_verse", "next_verse")

PreviousVerseButton ==
  /\ Navigate("previous_verse", "previous_verse")

StartOfPreviousChapterButton ==
  /\ Navigate("start_of_previous_chapter", "start_of_chapter")

StartOfNextChapterButton ==
  /\ Navigate("start_of_next_chapter", "start_of_next_chapter")

JumpButton ==
  /\ phase = "running"
  /\ \E book \in WindowJumpBooks, chapter \in WindowChapterTexts, verse \in WindowVerseTexts :
       JumpTo(book, chapter, verse)
  /\ UNCHANGED <<store, user_translations>>

NextWindow ==
  \/ Construct
  \/ EditTranslation
  \/ SaveTranslation
  \/ NextVerseButton
  \/ PreviousVerseButton
  \/ StartOfPreviousChapterButton
  \/ StartOfNextChapterButton
  \/ JumpButton

SpecWindow == InitWindow /\ [][NextWindow]_vars


\* ----------------------------------------------- the claims on the edits
NavigationHandlers ==
  {"next_verse", "previous_verse", "start_of_previous_chapter", "start_of_next_chapter"}

\* The step is a navigation handler in which the question was asked and
\* answered with reply.
Answered(reply) == mode' \in NavigationHandlers /\ arg'[4] = reply

\* The step begins with unsaved edits and changes the current address.
MovesWithUnsavedEdits ==
  /\ translation_changed
  /\ <<current_book, current_chapter, current_verse>>' #
       <<current_book, current_chapter, current_verse>>

\* The step leaves the text of the box stored under the address it began at.
SavedUnderOldAddress ==
  /\ user_translations' = save_translation
  /\ TranslationIn(user_translations', current_book.str, current_chapter, current_verse)
       = PyStr(translation_input)

\* C24 (as stated): whenever the current address changes while
\* translation_changed is true, maybe_save_translation was asked first and
\* answered Yes, the edit then being saved under the old address, or No;
\* and a step answered with Cancel leaves the address, the edit and
\* translation_changed unchanged. It fails for the jump to a reference,
\* which moves without asking.
C24_EditsNeverDroppedSilently ==
  [][/\ MovesWithUnsavedEdits =>
          \/ Answered("Yes") /\ SavedUnderOldAddress
          \/ Answered("No") /\ UNCHANGED user_translations
     /\ Answered("Cancel") =>
          UNCHANGED <<current_book, current_chapter, current_verse,
                      translation_input, translation_changed>>]_vars


\* ------------------------------------- the claims on the persisted position
\* The settings file holds no last position, or one that is a valid address.
StoredValidOrAbsent ==
  \A position \in {PersistedPosition(settings)} :
    \/ position = None
    \/ /\ get_book_data(position[1]) # None
       /\ \E b \in {PositionOf(position[1])} : HasRecord(b, position[2], position[3])

\* The step is a navigation or a jump of the window.
NavigationOrJump == mode' \in NavigationHandlers \cup {"jump_to_reference"}

\* C25 (as stated): if the stored position is valid or absent at startup, it
\* is valid after any sequence of navigation and jump operations. An absent
\* position stays absent while no address with verse data is shown.
C25_StoredValid ==
  [][(StoredValidOrAbsent /\ NavigationOrJump) => PersistedValid(settings')]_vars

\* C25 (amended): the settings file is written only with the current
\* address and only when that address has verse data, and is left unchanged
\* otherwise; so a stored position that is valid or absent stays valid or
\* absent through every step of the window.
C25_StoredNeverInvalid ==
  [][/\ settings' # settings =>
          /\ get_greek_text(current_book', current_chapter', current_verse') # <<>>
          /\ PersistedPosition(settings') = <<current_book', current_chapter', current_verse'>>
     /\ StoredValidOrAbsent => StoredValidOrAbsent']_vars

\* A navigation button has moved the window to an address without verse
\* data: the stored position is still the valid address shown before.
C25_Witness ==
  /\ mode \in NavigationHandlers
  /\ outcome.exc = "" /\ outcome.ret # None
  /\ get_greek_text(current_book, current_chapter, current_verse) = <<>>
  /\ PersistedValid(settings)
  /\ PersistedPosition(settings) = <<arg[1], arg[2], arg[3]>>
  /\ PersistedPosition(settings) # <<current_book, current_chapter, current_verse>>

====
